---- MODULE Spec2Model ----
(***************************************************************************)
(* UScript front end and tree-walking evaluator (src/src/compiler.py):     *)
(* lexer, parse, semantic_analysis, execute_ast and their composition      *)
(* compile_file.                                                           *)
(*                                                                         *)
(* A source text is a sequence of one-character strings; a position is     *)
(* Python's 0-based offset, so the character at offset p is text[p + 1].   *)
(* A token is the pair <<token_type, value>> of the source, the value a    *)
(* string.  A regular expression of TOKEN_TYPES is an operator that gives  *)
(* the end offset of re.match(text, position), or -1 when it does not      *)
(* match.                                                                  *)
(***************************************************************************)
EXTENDS Integers, Sequences, FiniteSets, TLC

VARIABLES entry, stage, input_text, position, tokens, index, ast,
          symbol_table, node_i, frames, effects, error

vars == <<entry, stage, input_text, position, tokens, index, ast,
          symbol_table, node_i, frames, effects, error>>

(***************************************************************************)
(* Characters and character classes of Python's re: \w, \s, [a-zA-Z_].     *)
(***************************************************************************)
Letters ==
    {"a","b","c","d","e","f","g","h","i","j","k","l","m","n","o","p","q","r",
     "s","t","u","v","w","x","y","z","A","B","C","D","E","F","G","H","I","J",
     "K","L","M","N","O","P","Q","R","S","T","U","V","W","X","Y","Z"}

Digits == {"0","1","2","3","4","5","6","7","8","9"}

IsIdentStart(c) == c \in Letters \cup {"_"}

IsWord(c) == c \in Letters \cup Digits \cup {"_"}

IsSpace(c) == c \in {" ", "\t", "\n", "\r", "\f"}

\* The character at 0-based offset p, "" outside the text.
Ch(s, p) == IF p >= 0 /\ p < Len(s) THEN s[p + 1] ELSE ""

RECURSIVE Str(_)
\* match.group(0): the matched characters as one string.
Str(s) == IF s = <<>> THEN "" ELSE Head(s) \o Str(Tail(s))

\* text[a:b]
Slice(s, a, b) == Str(SubSeq(s, a + 1, b))

RECURSIVE WordEnd(_, _)
\* \w* from p, greedy.
WordEnd(s, p) == IF IsWord(Ch(s, p)) THEN WordEnd(s, p + 1) ELSE p

RECURSIVE SpaceEnd(_, _)
\* \s* from p, greedy.
SpaceEnd(s, p) == IF IsSpace(Ch(s, p)) THEN SpaceEnd(s, p + 1) ELSE p

RECURSIVE WordDotEnd(_, _)
\* [\w.]* from p, greedy.
WordDotEnd(s, p) ==
    IF IsWord(Ch(s, p)) \/ Ch(s, p) = "." THEN WordDotEnd(s, p + 1) ELSE p

\* \b at p.
WB(s, p) == IsWord(Ch(s, p - 1)) # IsWord(Ch(s, p))

\* A literal word w (a sequence of characters) at p.
Lit(s, p, w) ==
    IF p >= 0 /\ p + Len(w) <= Len(s) /\ SubSeq(s, p + 1, p + Len(w)) = w
    THEN p + Len(w) ELSE -1

\* a|b : the first alternative that matches.
Alt(a, b) == IF a >= 0 THEN a ELSE b

\* x+ : the end e of x* from b, where at least one x is needed.
Plus(b, e) == IF b >= 0 /\ e > b THEN e ELSE -1

RECURSIVE FindChar(_, _, _)
\* The offset of the first c at or after p, -1 when there is none.
FindChar(s, p, c) ==
    IF p >= Len(s) THEN -1
    ELSE IF Ch(s, p) = c THEN p ELSE FindChar(s, p + 1, c)

RECURSIVE LineEnd(_, _)
\* .* from p: up to the end of the line.
LineEnd(s, p) == IF p < Len(s) /\ Ch(s, p) # "\n" THEN LineEnd(s, p + 1) ELSE p

RECURSIVE FindLit(_, _, _)
\* The end of the first occurrence of w starting at or after p, or -1.
FindLit(s, p, w) ==
    IF p + Len(w) > Len(s) THEN -1
    ELSE IF Lit(s, p, w) >= 0 THEN Lit(s, p, w) ELSE FindLit(s, p + 1, w)

RECURSIVE DottedEnd(_, _)
\* (\.\w+)* from p, greedy.
DottedEnd(s, p) ==
    IF Ch(s, p) = "." /\ WordEnd(s, p + 1) > p + 1
    THEN DottedEnd(s, WordEnd(s, p + 1)) ELSE p

RECURSIVE StringBodyEnd(_, _)
\* (?:[^"\\]|\\.)*" from p.
StringBodyEnd(s, p) ==
    IF p >= Len(s) THEN -1
    ELSE IF Ch(s, p) = "\"" THEN p + 1
    ELSE IF Ch(s, p) = "\\"
         THEN IF p + 1 < Len(s) /\ Ch(s, p + 1) # "\n"
              THEN StringBodyEnd(s, p + 2) ELSE -1
    ELSE StringBodyEnd(s, p + 1)

\* \bw\b at p.
WordB(s, p, w) ==
    IF WB(s, p) /\ Lit(s, p, w) >= 0 /\ WB(s, Lit(s, p, w))
    THEN Lit(s, p, w) ELSE -1

\* "[^"]*" at p.
QuotedEnd(s, p) ==
    IF Ch(s, p) = "\"" /\ FindChar(s, p + 1, "\"") >= 0
    THEN FindChar(s, p + 1, "\"") + 1 ELSE -1

\* \b[a-zA-Z_]\w*\b at p.
IdentEnd(s, p) ==
    IF WB(s, p) /\ IsIdentStart(Ch(s, p)) THEN WordEnd(s, p + 1) ELSE -1

\* ("[^"]*"|\btrue\b|\bfalse\b|\b[a-zA-Z_]\w*\b) at p.
VariableValueEnd(s, p) ==
    Alt(QuotedEnd(s, p),
    Alt(WordB(s, p, <<"t","r","u","e">>),
    Alt(WordB(s, p, <<"f","a","l","s","e">>),
        IdentEnd(s, p))))

\* ("[^"]*"|\btrue\b|\bfalse\b|\b[a-zA-Z_]\w*\b|\bnull\b) at p.
ReturnValueEnd(s, p) ==
    Alt(VariableValueEnd(s, p), WordB(s, p, <<"n","u","l","l">>))

\* folder\s+(\w+(\.\w+)*)
MatchFOLDER(s, p) ==
    LET a == Lit(s, p, <<"f","o","l","d","e","r">>)
        b == Plus(a, SpaceEnd(s, a))
        c == Plus(b, WordEnd(s, b))
    IN  IF c < 0 THEN -1 ELSE DottedEnd(s, c)

\* class\s+(\w+)(\s+extends\s+\w+)?
MatchCLASS(s, p) ==
    LET a == Lit(s, p, <<"c","l","a","s","s">>)
        b == Plus(a, SpaceEnd(s, a))
        c == Plus(b, WordEnd(s, b))
        d == Plus(c, SpaceEnd(s, c))
        e == Lit(s, d, <<"e","x","t","e","n","d","s">>)
        f == Plus(e, SpaceEnd(s, e))
        g == Plus(f, WordEnd(s, f))
    IN  IF c < 0 THEN -1 ELSE Alt(g, c)

\* variable\s+(\w+)(->\w+)?\s*=\s*(<value>)
MatchVARIABLE(s, p) ==
    LET a == Lit(s, p, <<"v","a","r","i","a","b","l","e">>)
        b == Plus(a, SpaceEnd(s, a))
        c == Plus(b, WordEnd(s, b))
        d == Lit(s, c, <<"-",">">>)
        e == Alt(Plus(d, WordEnd(s, d)), c)
        f == SpaceEnd(s, e)
        g == Lit(s, f, <<"=">>)
    IN  IF c < 0 \/ g < 0 THEN -1 ELSE VariableValueEnd(s, SpaceEnd(s, g))

\* function\s+(\w+) from p.
FunctionFrom(s, p) ==
    LET a == Lit(s, p, <<"f","u","n","c","t","i","o","n">>)
        b == Plus(a, SpaceEnd(s, a))
    IN  Plus(b, WordEnd(s, b))

\* (public\s+)?function\s+(\w+)
MatchFUNCTION(s, p) ==
    LET a == Lit(s, p, <<"p","u","b","l","i","c">>)
        b == Plus(a, SpaceEnd(s, a))
    IN  Alt(IF b < 0 THEN -1 ELSE FunctionFrom(s, b), FunctionFrom(s, p))

\* return\s+(<value>)
MatchRETURN(s, p) ==
    LET a == Lit(s, p, <<"r","e","t","u","r","n">>)
        b == Plus(a, SpaceEnd(s, a))
    IN  IF b < 0 THEN -1 ELSE ReturnValueEnd(s, b)

\* but if|otherwise
MatchELSE(s, p) ==
    Alt(Lit(s, p, <<"b","u","t"," ","i","f">>),
        Lit(s, p, <<"o","t","h","e","r","w","i","s","e">>))

\* import\s+([\w.]+)
MatchIMPORT(s, p) ==
    LET a == Lit(s, p, <<"i","m","p","o","r","t">>)
        b == Plus(a, SpaceEnd(s, a))
    IN  Plus(b, WordDotEnd(s, b))

\* "(?:[^"\\]|\\.)*"
MatchSTRING(s, p) ==
    IF Ch(s, p) = "\"" THEN StringBodyEnd(s, p + 1) ELSE -1

\* //.*|/\*[\s\S]*?\*/
MatchCOMMENT(s, p) ==
    LET a == Lit(s, p, <<"/","/">>)
        b == Lit(s, p, <<"/","*">>)
    IN  Alt(IF a < 0 THEN -1 ELSE LineEnd(s, a),
            IF b < 0 THEN -1 ELSE FindLit(s, b, <<"*","/">>))

\* true|false
MatchBOOLEAN(s, p) ==
    Alt(Lit(s, p, <<"t","r","u","e">>), Lit(s, p, <<"f","a","l","s","e">>))

\* The token types in the order lexer tries them.
TOKEN_TYPES ==
    <<"FOLDER", "CLASS", "VARIABLE", "FUNCTION", "RETURN", "IF", "NOT", "ELSE",
      "IMPORT", "IDENTIFIER", "STRING", "COMMENT", "LPAREN", "RPAREN", "LBRACE",
      "RBRACE", "SEMICOLON", "DOT", "YEET", "ARROW", "BOOLEAN", "NULL">>

\* re.compile(pattern).match(input_text, position) for token_type's pattern.
MatchEnd(token_type, s, p) ==
    CASE token_type = "FOLDER" -> MatchFOLDER(s, p)
      [] token_type = "CLASS" -> MatchCLASS(s, p)
      [] token_type = "VARIABLE" -> MatchVARIABLE(s, p)
      [] token_type = "FUNCTION" -> MatchFUNCTION(s, p)
      [] token_type = "RETURN" -> MatchRETURN(s, p)
      [] token_type = "IF" -> Lit(s, p, <<"i","f">>)
      [] token_type = "NOT" -> Lit(s, p, <<"n","o","t">>)
      [] token_type = "ELSE" -> MatchELSE(s, p)
      [] token_type = "IMPORT" -> MatchIMPORT(s, p)
      [] token_type = "IDENTIFIER" -> IdentEnd(s, p)
      [] token_type = "STRING" -> MatchSTRING(s, p)
      [] token_type = "COMMENT" -> MatchCOMMENT(s, p)
      [] token_type = "LPAREN" -> Lit(s, p, <<"(">>)
      [] token_type = "RPAREN" -> Lit(s, p, <<")">>)
      [] token_type = "LBRACE" -> Lit(s, p, <<"{">>)
      [] token_type = "RBRACE" -> Lit(s, p, <<"}">>)
      [] token_type = "SEMICOLON" -> Lit(s, p, <<";">>)
      [] token_type = "DOT" -> Lit(s, p, <<".">>)
      [] token_type = "YEET" -> Lit(s, p, <<"y","e","e","t">>)
      [] token_type = "ARROW" -> Lit(s, p, <<"-",">">>)
      [] token_type = "BOOLEAN" -> MatchBOOLEAN(s, p)
      [] token_type = "NULL" -> Lit(s, p, <<"n","u","l","l">>)

KEYWORDS == {"if", "not", "but", "otherwise", "yeet", "import", "extends", "return"}

\* value.upper() for the values of KEYWORDS.
Upper(value) ==
    CASE value = "if" -> "IF"
      [] value = "not" -> "NOT"
      [] value = "but" -> "BUT"
      [] value = "otherwise" -> "OTHERWISE"
      [] value = "yeet" -> "YEET"
      [] value = "import" -> "IMPORT"
      [] value = "extends" -> "EXTENDS"
      [] value = "return" -> "RETURN"
      [] OTHER -> value

\* The exceptions of the program; exc = "" is no exception.  `at` is an
\* offset (-1 when the message has none), `name` and `found` the names the
\* message quotes.
NoError == [exc |-> "", msg |-> "", at |-> -1, name |-> "", found |-> ""]

Raise(exc, msg, at, name, found) ==
    [exc |-> exc, msg |-> msg, at |-> at, name |-> name, found |-> found]

\* The first token type of TOKEN_TYPES, from the k-th on, whose pattern
\* matches at p; 0 when none does.
RECURSIVE FirstMatch(_, _, _)
FirstMatch(s, p, k) ==
    IF k > Len(TOKEN_TYPES) THEN 0
    ELSE IF MatchEnd(TOKEN_TYPES[k], s, p) >= 0 THEN k
    ELSE FirstMatch(s, p, k + 1)

\* One iteration of lexer's while loop at `p`, with `toks` scanned so far.
LexerIter(s, p, toks) ==
    LET k == FirstMatch(s, p, 1) IN
    IF k = 0
    THEN [error |-> Raise("Exception", "Lexer error: Unrecognized token at position",
                          p, "", ""),
          position |-> p, tokens |-> toks]
    ELSE LET e == MatchEnd(TOKEN_TYPES[k], s, p)
             value == Slice(s, p, e)
             token_type == IF TOKEN_TYPES[k] = "IDENTIFIER" /\ value \in KEYWORDS
                           THEN Upper(value) ELSE TOKEN_TYPES[k]
         IN  [error |-> NoError,
              position |-> e,
              tokens |-> IF token_type # "COMMENT"
                         THEN Append(toks, <<token_type, value>>) ELSE toks]

\* The loop, with `r` the state after the previous iteration.
RECURSIVE LexerFrom(_, _)
LexerFrom(s, r) ==
    IF r.error.exc # "" \/ r.position >= Len(s) THEN r
    ELSE LexerFrom(s, LexerIter(s, r.position, r.tokens))

\* lexer(input_text): the tokens, or the exception raised.
lexer(s) == LexerFrom(s, [error |-> NoError, position |-> 0, tokens |-> <<>>])

(***************************************************************************)
(* Python values.  A token, a parameter list and Variable's value triple   *)
(* are tuples; a Node is a record with the four attributes of class Node;  *)
(* a list held where a Node is expected (the body in IF's children) is the *)
(* record PyList(items), which has no attribute `type`.  None is a string  *)
(* that is no lexeme (no token pattern matches "<"), and NoToken is the    *)
(* None that peek() returns in place of a token.                           *)
(***************************************************************************)
None == "<None>"

NoToken == <<>>

Node(type, children, value, access_modifier) ==
    [type |-> type, children |-> children, value |-> value,
     access_modifier |-> access_modifier]

PyList(items) == [items |-> items]

\* hasattr(x, 'type')
HasType(x) == "type" \in DOMAIN x

\* What a parsing routine hands back: the exception raised (if any), the
\* token index after it, and its return value.
Result(err, i, value) == [error |-> err, index |-> i, value |-> value]

Failed(r) == r.error.exc # ""

ParserError(msg, name, found) == Raise("Exception", msg, -1, name, found)

NoneSubscript == Raise("TypeError", "'NoneType' object is not subscriptable", -1, "", "")

\* The token type an error message shows for `token`.
Found(token) == IF token = NoToken THEN "None" ELSE token[1]

peek(ts, i, ahead) == IF i + ahead < Len(ts) THEN ts[i + ahead + 1] ELSE NoToken

\* consume without its `index += 1`.
consume_in_place(ts, i, token_type) ==
    LET token == peek(ts, i, 0) IN
    IF token # NoToken /\ token[1] = token_type
    THEN Result(NoError, i, token)
    ELSE Result(ParserError("Parser error: Expected, found", token_type, Found(token)),
                i, None)

consume(ts, i, token_type) ==
    LET token == peek(ts, i, 0) IN
    IF token # NoToken /\ token[1] = token_type
    THEN Result(NoError, i + 1, token)
    ELSE Result(ParserError("Parser error: Expected, found", token_type, Found(token)),
                i, None)

\* Sequencing: an exception raised by `r` propagates, otherwise F goes on
\* from r.
Then(r, F(_)) == IF Failed(r) THEN r ELSE F(r)

\* r when `cond` holds (a statement under an `if`), else nothing is consumed.
Optional(cond, r, i) == IF cond THEN r ELSE Result(NoError, i, None)

RECURSIVE ImportLoop(_, _, _)
\* while peek() and peek()[0] == 'DOT'
ImportLoop(ts, i, module_name) ==
    IF peek(ts, i, 0) # NoToken /\ peek(ts, i, 0)[1] = "DOT"
    THEN Then(consume(ts, i, "DOT"), LAMBDA a :
         Then(consume(ts, a.index, "IDENTIFIER"), LAMBDA b :
              ImportLoop(ts, b.index, module_name \o "." \o b.value[2])))
    ELSE Result(NoError, i, module_name)

parse_import(ts, i) ==
    Then(consume(ts, i, "IMPORT"), LAMBDA a :
    Then(consume(ts, a.index, "IDENTIFIER"), LAMBDA b :
    Then(ImportLoop(ts, b.index, b.value[2]), LAMBDA c :
    Then(consume(ts, c.index, "SEMICOLON"), LAMBDA d :
         Result(NoError, d.index, Node("IMPORT", <<>>, c.value, None))))))

parse_identifier(ts, i) ==
    Then(consume(ts, i, "IDENTIFIER"), LAMBDA a :
         Result(NoError, a.index, Node("IDENTIFIER", <<>>, a.value[2], None)))

parse_string(ts, i) ==
    Then(consume(ts, i, "STRING"), LAMBDA a :
         Result(NoError, a.index, Node("STRING", <<>>, a.value[2], None)))

parse_boolean(ts, i) ==
    Then(consume(ts, i, "BOOLEAN"), LAMBDA a :
         Result(NoError, a.index, Node("BOOLEAN", <<>>, a.value[2], None)))

\* token[0] of parse_expression, parse_statement and parse_value, where
\* token = peek(): subscripting None raises TypeError.
Dispatch(token, i, F(_)) ==
    IF token = NoToken THEN Result(NoneSubscript, i, None) ELSE F(token[1])

UnexpectedToken(token, i) ==
    Result(ParserError("Parser error: Unexpected token", "", Found(token)), i, None)

parse_expression(ts, i) ==
    Dispatch(peek(ts, i, 0), i, LAMBDA token_type :
        IF token_type = "IDENTIFIER" THEN parse_identifier(ts, i)
        ELSE IF token_type = "STRING" THEN parse_string(ts, i)
        ELSE IF token_type = "BOOLEAN" THEN parse_boolean(ts, i)
        ELSE UnexpectedToken(peek(ts, i, 0), i))

\* if peek()[0] == 'COMMA': consume('COMMA'), after an item that ended at i;
\* `items` is the list with the item appended.
CommaAfter(ts, i, items) ==
    Dispatch(peek(ts, i, 0), i, LAMBDA token_type :
        IF token_type = "COMMA"
        THEN Result(NoError, consume(ts, i, "COMMA").index, items)
        ELSE Result(NoError, i, items))

\* One iteration of parse_function_call's while loop.
ArgumentIter(ts, i, arguments) ==
    Then(parse_expression(ts, i), LAMBDA a :
         CommaAfter(ts, a.index, Append(arguments, a.value)))

RECURSIVE ArgumentLoop(_, _, _)
\* while peek() and peek()[0] != 'RPAREN'
ArgumentLoop(ts, i, arguments) ==
    IF peek(ts, i, 0) # NoToken /\ peek(ts, i, 0)[1] # "RPAREN"
    THEN Then(ArgumentIter(ts, i, arguments), LAMBDA a :
              ArgumentLoop(ts, a.index, a.value))
    ELSE Result(NoError, i, arguments)

parse_function_call(ts, i) ==
    Then(consume(ts, i, "IDENTIFIER"), LAMBDA a :
    Then(consume(ts, a.index, "LPAREN"), LAMBDA b :
    Then(ArgumentLoop(ts, b.index, <<>>), LAMBDA c :
    Then(consume(ts, c.index, "RPAREN"), LAMBDA d :
    Then(consume(ts, d.index, "SEMICOLON"), LAMBDA e :
         Result(NoError, e.index, Node("FUNCTION_CALL", c.value, a.value[2], None)))))))

parse_assignment(ts, i) ==
    Then(consume(ts, i, "IDENTIFIER"), LAMBDA a :
    Then(consume(ts, a.index, "EQUALS"), LAMBDA b :
    Then(parse_expression(ts, b.index), LAMBDA c :
    Then(consume(ts, c.index, "SEMICOLON"), LAMBDA d :
         Result(NoError, d.index,
                Node("ASSIGNMENT", <<>>, <<a.value[2], c.value>>, None))))))

parse_return(ts, i) ==
    Then(consume(ts, i, "RETURN"), LAMBDA a :
    Then(parse_expression(ts, a.index), LAMBDA b :
    Then(consume(ts, b.index, "SEMICOLON"), LAMBDA c :
         Result(NoError, c.index, Node("RETURN", <<>>, b.value, None)))))

parse_yeet(ts, i) ==
    Then(consume(ts, i, "YEET"), LAMBDA a :
    Then(consume(ts, a.index, "STRING"), LAMBDA b :
    Then(consume(ts, b.index, "SEMICOLON"), LAMBDA c :
         Result(NoError, c.index, Node("YEET", <<>>, b.value[2], None)))))

\* consume(token_type)[1]
Lexeme(r) == Then(r, LAMBDA a : Result(NoError, a.index, a.value[2]))

parse_value(ts, i) ==
    Dispatch(peek(ts, i, 0), i, LAMBDA token_type :
        IF token_type = "STRING" THEN Lexeme(consume(ts, i, "STRING"))
        ELSE IF token_type = "BOOLEAN" THEN Result(NoError, i, peek(ts, i, 0)[2] = "true")
        ELSE IF token_type = "IDENTIFIER" THEN Lexeme(consume(ts, i, "IDENTIFIER"))
        ELSE IF token_type = "NULL"
             THEN Result(NoError, consume(ts, i, "NULL").index, None)
        ELSE Result(ParserError("Parser error: Unexpected value", "", ""), i, None))

RECURSIVE parse_if(_, _)
RECURSIVE parse_body(_, _)
RECURSIVE BodyLoop(_, _, _)
RECURSIVE parse_statement(_, _)

parse_statement(ts, i) ==
    Dispatch(peek(ts, i, 0), i, LAMBDA token_type :
        IF token_type = "IF" THEN parse_if(ts, i)
        ELSE IF token_type = "IDENTIFIER"
             THEN IF peek(ts, i, 1) # NoToken /\ peek(ts, i, 1)[1] = "LPAREN"
                  THEN parse_function_call(ts, i)
                  ELSE parse_assignment(ts, i)
        ELSE IF token_type = "YEET" THEN parse_yeet(ts, i)
        ELSE IF token_type = "IMPORT" THEN parse_import(ts, i)
        ELSE IF token_type = "RETURN" THEN parse_return(ts, i)
        ELSE UnexpectedToken(peek(ts, i, 0), i))

\* while peek() and peek()[0] != 'RBRACE': one statement per iteration.
BodyLoop(ts, i, statements) ==
    IF peek(ts, i, 0) # NoToken /\ peek(ts, i, 0)[1] # "RBRACE"
    THEN Then(parse_statement(ts, i), LAMBDA a :
              BodyLoop(ts, a.index, Append(statements, a.value)))
    ELSE Result(NoError, i, statements)

parse_body(ts, i) ==
    Then(consume(ts, i, "LBRACE"), LAMBDA a :
    Then(BodyLoop(ts, a.index, <<>>), LAMBDA b :
    Then(consume(ts, b.index, "RBRACE"), LAMBDA c :
         Result(NoError, c.index, b.value))))

parse_if(ts, i) ==
    Then(consume(ts, i, "IF"), LAMBDA a :
    Then(parse_expression(ts, a.index), LAMBDA b :
    Then(parse_body(ts, b.index), LAMBDA c :
         Result(NoError, c.index, Node("IF", <<b.value, PyList(c.value)>>, None, None)))))

\* if peek() and peek()[0] == 'EXTENDS': consume('EXTENDS'); consume('IDENTIFIER')
ParseExtends(ts, i) ==
    Optional(peek(ts, i, 0) # NoToken /\ peek(ts, i, 0)[1] = "EXTENDS",
             Then(consume(ts, i, "EXTENDS"), LAMBDA a :
                  Lexeme(consume(ts, a.index, "IDENTIFIER"))),
             i)

parse_class(ts, i) ==
    Then(consume(ts, i, "CLASS"), LAMBDA a :
    Then(consume(ts, a.index, "IDENTIFIER"), LAMBDA b :
    Then(ParseExtends(ts, b.index), LAMBDA c :
    Then(parse_body(ts, c.index), LAMBDA d :
         Result(NoError, d.index, Node("CLASS", d.value, b.value[2], None))))))

\* if peek()[0] == 'ARROW': consume('ARROW'); arrow = consume('IDENTIFIER')[1]
ParseArrow(ts, i) ==
    Dispatch(peek(ts, i, 0), i, LAMBDA token_type :
        Optional(token_type = "ARROW",
                 Then(consume(ts, i, "ARROW"), LAMBDA a :
                      Lexeme(consume(ts, a.index, "IDENTIFIER"))),
                 i))

parse_variable(ts, i) ==
    Then(consume(ts, i, "VARIABLE"), LAMBDA a :
    Then(consume(ts, a.index, "IDENTIFIER"), LAMBDA b :
    Then(ParseArrow(ts, b.index), LAMBDA arrow :
    Then(consume(ts, arrow.index, "EQUALS"), LAMBDA c :
    Then(parse_value(ts, c.index), LAMBDA d :
    Then(consume(ts, d.index, "SEMICOLON"), LAMBDA e :
         Result(NoError, e.index,
                Node("VARIABLE", <<>>, <<b.value[2], arrow.value, d.value>>, None))))))))

\* One iteration of parse_parameters' while loop.
ParameterIter(ts, i, parameters) ==
    Then(consume(ts, i, "IDENTIFIER"), LAMBDA a :
         CommaAfter(ts, a.index, Append(parameters, a.value[2])))

RECURSIVE ParameterLoop(_, _, _)
\* while peek() and peek()[0] != 'RPAREN'
ParameterLoop(ts, i, parameters) ==
    IF peek(ts, i, 0) # NoToken /\ peek(ts, i, 0)[1] # "RPAREN"
    THEN Then(ParameterIter(ts, i, parameters), LAMBDA a :
              ParameterLoop(ts, a.index, a.value))
    ELSE Result(NoError, i, parameters)

parse_parameters(ts, i) == ParameterLoop(ts, i, <<>>)

\* if peek()[0] == 'PUBLIC': consume('PUBLIC'); is_public = True
ParsePublic(ts, i) ==
    Dispatch(peek(ts, i, 0), i, LAMBDA token_type :
        IF token_type = "PUBLIC"
        THEN Result(NoError, consume(ts, i, "PUBLIC").index, "public")
        ELSE Result(NoError, i, None))

parse_function(ts, i) ==
    Then(ParsePublic(ts, i), LAMBDA access :
    Then(consume(ts, access.index, "FUNCTION"), LAMBDA a :
    Then(consume(ts, a.index, "IDENTIFIER"), LAMBDA b :
    Then(consume(ts, b.index, "LPAREN"), LAMBDA c :
    Then(parse_parameters(ts, c.index), LAMBDA d :
    Then(consume(ts, d.index, "RPAREN"), LAMBDA e :
    Then(parse_body(ts, e.index), LAMBDA f :
         Result(NoError, f.index,
                Node("FUNCTION", f.value, <<b.value[2], d.value>>, access.value)))))))))

\* ast.append(r) when the production returned, its exception otherwise.
AppendNode(r, nodes) ==
    [error |-> r.error, index |-> r.index,
     ast |-> IF Failed(r) THEN nodes ELSE Append(nodes, r.value)]

\* One iteration of parse's top-level while loop (peek() is a token): the
\* production the first token selects, its node appended to `nodes`.
ParseIter(ts, i, nodes) ==
    LET token_type == peek(ts, i, 0)[1] IN
    IF token_type = "FOLDER"
    THEN [error |-> NoError, index |-> consume(ts, i, "FOLDER").index, ast |-> nodes]
    ELSE IF token_type = "CLASS" THEN AppendNode(parse_class(ts, i), nodes)
    ELSE IF token_type = "VARIABLE" THEN AppendNode(parse_variable(ts, i), nodes)
    ELSE IF token_type = "FUNCTION" THEN AppendNode(parse_function(ts, i), nodes)
    ELSE IF token_type = "IF" THEN AppendNode(parse_if(ts, i), nodes)
    ELSE IF token_type = "RETURN" THEN AppendNode(parse_return(ts, i), nodes)
    ELSE IF token_type = "COMMENT"
    THEN [error |-> NoError, index |-> i + 1, ast |-> nodes]
    ELSE IF token_type = "IMPORT" THEN AppendNode(parse_import(ts, i), nodes)
    ELSE [error |-> UnexpectedToken(peek(ts, i, 0), i).error, index |-> i, ast |-> nodes]

\* The loop from index i on, with `r` the state after the previous iteration.
RECURSIVE ParseFrom(_, _)
ParseFrom(ts, r) ==
    IF Failed(r) \/ peek(ts, r.index, 0) = NoToken THEN r
    ELSE ParseFrom(ts, ParseIter(ts, r.index, r.ast))

\* parse(tokens): the AST, or the exception raised.
parse(ts) == ParseFrom(ts, [error |-> NoError, index |-> 0, ast |-> <<>>])

(***************************************************************************)
(* semantic_analysis: the symbol table is a function from the declared     *)
(* names to their nodes.                                                   *)
(***************************************************************************)
SemanticError(msg, name) == Raise("Exception", msg, -1, name, "")

ListHasNoType ==
    Raise("AttributeError", "'list' object has no attribute 'type'", -1, "", "")

\* A declaration that is checked but not recorded.
DeclareNothing(table, name, node) == table

\* symbol_table[name] = node
Declare(table, name, node) ==
    [n \in DOMAIN table \cup {name} |-> IF n = name THEN node ELSE table[n]]

RECURSIVE analyze_node(_, _)
RECURSIVE AnalyzeArguments(_, _, _)

\* for arg in node.children: analyze_node(arg)
AnalyzeArguments(args, k, table) ==
    IF k > Len(args) THEN [error |-> NoError, symbol_table |-> table]
    ELSE Then(analyze_node(args[k], table), LAMBDA a :
              AnalyzeArguments(args, k + 1, a.symbol_table))

analyze_node(node, table) ==
    IF ~HasType(node) THEN [error |-> ListHasNoType, symbol_table |-> table]
    ELSE IF node.type = "CLASS"
    THEN IF node.value \in DOMAIN table
         THEN [error |-> SemanticError("Semantic error: Class already declared", node.value),
               symbol_table |-> table]
         ELSE [error |-> NoError, symbol_table |-> Declare(table, node.value, node)]
    ELSE IF node.type = "VARIABLE"
    THEN IF node.value[1] \in DOMAIN table
         THEN [error |-> SemanticError("Semantic error: Variable already declared",
                                       node.value[1]),
               symbol_table |-> table]
         ELSE [error |-> NoError, symbol_table |-> Declare(table, node.value[1], node)]
    ELSE IF node.type = "FUNCTION"
    THEN IF node.value[1] \in DOMAIN table
         THEN [error |-> SemanticError("Semantic error: Function already declared",
                                       node.value[1]),
               symbol_table |-> table]
         ELSE [error |-> NoError, symbol_table |-> Declare(table, node.value[1], node)]
    ELSE IF node.type = "IF"
    THEN Then(analyze_node(node.children[1], table), LAMBDA a :
              analyze_node(node.children[2], a.symbol_table))
    ELSE IF node.type = "RETURN"
    THEN analyze_node(node.value, table)
    ELSE IF node.type = "FUNCTION_CALL"
    THEN IF node.value \notin DOMAIN table
         THEN [error |-> SemanticError("Semantic error: Function not declared", node.value),
               symbol_table |-> table]
         ELSE AnalyzeArguments(node.children, 1, table)
    ELSE [error |-> NoError, symbol_table |-> table]

(***************************************************************************)
(* execute_ast.  The active calls of execute_ast are a stack of frames,    *)
(* the innermost last: `nodes` is the list the call walks and `pc` the     *)
(* 1-based place of its for loop.  Standard output is the sequence         *)
(* `effects`; a printed line is the tuple of its f-string's parts.         *)
(***************************************************************************)
Frame(nodes, pc) == [nodes |-> nodes, pc |-> pc]

ArityError ==
    Raise("Exception", "Error: say function requires exactly one argument", -1, "", "")

\* What the statement at the current place of the innermost frame does:
\* the exception it raises, the lines it prints, and the lists it calls
\* execute_ast on (none or one).
ExecOutcome(err, out, calls) == [error |-> err, out |-> out, calls |-> calls]

execute_return_statement(return_node) ==
    ExecOutcome(NoError, <<<<"Returning: ", return_node.value>>>>, <<>>)

\* execute_function_call with an else branch that reports the callee.
execute_function_call_reporting(call_node) ==
    IF call_node.value = "say"
    THEN IF Len(call_node.children) # 1
         THEN ExecOutcome(ArityError, <<>>, <<>>)
         ELSE ExecOutcome(NoError, <<<<"Saying: ", call_node.children[1].value>>>>, <<>>)
    ELSE ExecOutcome(NoError, <<<<"Unknown function: ", call_node.value>>>>, <<>>)

execute_function_call(call_node) ==
    LET function_name == call_node.value
        arguments == call_node.children
    IN  IF function_name = "say"
        THEN IF Len(arguments) # 1
             THEN ExecOutcome(ArityError, <<>>, <<>>)
             ELSE ExecOutcome(NoError, <<<<"Saying: ", arguments[1].value>>>>, <<>>)
        ELSE ExecOutcome(NoError, <<>>, <<>>)

\* execute_if_statement with a truthiness test: every condition but `false`
\* runs the body.
execute_if_truthy(if_node) ==
    IF if_node.children[1].value # "false"
    THEN ExecOutcome(NoError, <<>>, <<if_node.children[2]>>)
    ELSE ExecOutcome(NoError, <<<<"Condition not met for if statement">>>>, <<>>)

execute_if_statement(if_node) ==
    LET condition == if_node.children[1]
        body == if_node.children[2]
    IN  IF condition.value = "true"
        THEN ExecOutcome(NoError, <<>>, <<body>>)
        ELSE ExecOutcome(NoError, <<<<"Condition not met for if statement">>>>, <<>>)

\* The body of execute_ast's for loop for one node.
ExecuteNode(node) ==
    IF node.type = "CLASS"
    THEN ExecOutcome(NoError, <<<<"Declaring class: ", node.value>>>>, <<>>)
    ELSE IF node.type = "VARIABLE"
    THEN ExecOutcome(NoError,
                     <<<<"Declaring variable: ", node.value[1], " of type ", node.value[2]>>>>,
                     <<>>)
    ELSE IF node.type = "FUNCTION"
    THEN ExecOutcome(NoError,
                     <<<<IF node.access_modifier = "public"
                         THEN "Declaring public function: "
                         ELSE "Declaring function: ", node.value[1]>>>>,
                     <<>>)
    ELSE IF node.type = "IF" THEN execute_if_statement(node)
    ELSE IF node.type = "RETURN" THEN execute_return_statement(node)
    ELSE IF node.type = "YEET"
    THEN ExecOutcome(NoError, <<<<"Error: ", node.value>>>>, <<>>)
    ELSE IF node.type = "FUNCTION_CALL" THEN execute_function_call(node)
    ELSE ExecOutcome(NoError, <<>>, <<>>)

\* One iteration of the innermost execute_ast's for loop: the frames, output
\* and exception after it.
ExecuteResult(fs, out, r) ==
    IF Failed(r) THEN [error |-> r.error, frames |-> fs, effects |-> out]
    ELSE [error |-> NoError,
          frames |-> [fs EXCEPT ![Len(fs)].pc = @ + 1]
                         \o [k \in 1..Len(r.calls) |-> Frame(r.calls[k].items, 1)],
          effects |-> out \o r.out]

\* execute_ast with a Return that returns: the rest of the list is skipped.
ExecuteIterReturning(fs, out) ==
    IF fs[Len(fs)].nodes[fs[Len(fs)].pc].type = "RETURN"
    THEN [error |-> NoError,
          frames |-> [fs EXCEPT ![Len(fs)].pc = Len(fs[Len(fs)].nodes) + 1],
          effects |-> Append(out, <<"Returning: ", fs[Len(fs)].nodes[fs[Len(fs)].pc].value>>)]
    ELSE ExecuteResult(fs, out, ExecuteNode(fs[Len(fs)].nodes[fs[Len(fs)].pc]))

ExecuteIter(fs, out) ==
    ExecuteResult(fs, out, ExecuteNode(fs[Len(fs)].nodes[fs[Len(fs)].pc]))

(***************************************************************************)
(* The inputs the functions are run on.                                    *)
(***************************************************************************)
MaxFragments == 2

MaxPhrases == 3

MaxStatements == 2

MaxNodes == 3

\* The sequences of at most n elements of S.
SeqsUpTo(S, n) == UNION {[1..k -> S] : k \in 0..n}

RECURSIVE Flatten(_)
\* The concatenation of a sequence of sequences.
Flatten(ss) == IF ss = <<>> THEN <<>> ELSE Head(ss) \o Flatten(Tail(ss))

\* The pieces the source texts of the front end are put together from.
LexFragments ==
    {
     <<"f","o","l","d","e","r">>,   \* folder
     <<" ">>,
     <<"a">>,
     <<".">>,
     <<";">>,
     <<"v","a","r","i","a","b","l","e">>,   \* variable
     <<"x">>,
     <<"=">>,
     <<"\"","h","i","\"">>,   \* "hi"
     <<"-",">">>,   \* ->
     <<"c","l","a","s","s">>,   \* class
     <<"f","u","n","c","t","i","o","n">>,   \* function
     <<"(">>,
     <<")">>,
     <<"{">>,
     <<"}">>,
     <<"r","e","t","u","r","n">>,   \* return
     <<"i","f">>,   \* if
     <<"t","r","u","e">>,   \* true
     <<"i","m","p","o","r","t">>,   \* import
     <<"/","/">>,   \* //
     <<"/","*">>,   \* /*
     <<"*","/">>,   \* */
     <<"\n">>,
     <<"y","e","e","t">>,   \* yeet
     <<"s","a","y">>,   \* say
     <<",">>,
     <<"\"">>,
     <<"\\">>,
     <<"b","u","t">>,   \* but
     <<"o","t","h","e","r","w","i","s","e">>,   \* otherwise
     <<"n","o","t">>,   \* not
     <<"n","u","l","l">>,   \* null
     <<"p","u","b","l","i","c">>,   \* public
     <<"e","x","t","e","n","d","s">>   \* extends
    }

\* Whole source units.
SampleTexts ==
    {
     <<"v","a","r","i","a","b","l","e"," ","x"," ","="," ","\"","h","i","\"",";">>,   \* variable x = "hi";
     <<"f","o","l","d","e","r"," ","a",".","b",".","c",";">>,   \* folder a.b.c;
     <<"f","o","l","d","e","r"," ","a",".","b",".","c">>,   \* folder a.b.c
     <<"s","a","y","(","\"","h","e","l","l","o","\"",")",";">>,   \* say("hello");
     <<"r","e","t","u","r","n","\"","x","\"",";">>,   \* return"x";
     <<"i","f","t","r","u","e","{","s","a","y","(","\"","h","e","l","l","o","\"",")",";","}">>,   \* iftrue{say("hello");}
     <<"i","f","t","r","u","e","{","}">>,   \* iftrue{}
     <<"c","l","a","s","s"," ","A","{","}","c","l","a","s","s"," ","A","{","}">>,   \* class A{}class A{}
     <<"/","*"," ","c"," ","*","/","r","e","t","u","r","n","\"","x","\"",";","/","/"," ","d">>,   \* /* c */return"x";// d
     <<"f","o","l","d","e","r"," ","a",".","b",".","c","/","*"," ","c"," ","*","/","f","o","l","d","e","r"," ","d">>   \* folder a.b.c/* c */folder d
    }

\* The source texts compile_file is run on.
SourceTexts == {Flatten(ss) : ss \in SeqsUpTo(LexFragments, MaxFragments)} \cup SampleTexts

\* The pieces the token lists parse is run on are put together from.
TokenPhrases ==
    {
     \* folder
     <<<<"FOLDER", "folder a">>>>,
     \* //c
     <<<<"COMMENT", "//c">>>>,
     \* if true {
     <<<<"IF", "if">>, <<"BOOLEAN", "true">>, <<"LBRACE", "{">>>>,
     \* }
     <<<<"RBRACE", "}">>>>,
     \* say (
     <<<<"IDENTIFIER", "say">>, <<"LPAREN", "(">>>>,
     \* "s"
     <<<<"STRING", "\"s\"">>>>,
     \* ,
     <<<<"COMMA", ",">>>>,
     \* ) ;
     <<<<"RPAREN", ")">>, <<"SEMICOLON", ";">>>>,
     \* return "s" ;
     <<<<"RETURN", "return">>, <<"STRING", "\"s\"">>, <<"SEMICOLON", ";">>>>,
     \* function f (
     <<<<"FUNCTION", "function">>, <<"IDENTIFIER", "f">>, <<"LPAREN", "(">>>>,
     \* a
     <<<<"IDENTIFIER", "a">>>>,
     \* ) {
     <<<<"RPAREN", ")">>, <<"LBRACE", "{">>>>,
     \* class A {
     <<<<"CLASS", "class">>, <<"IDENTIFIER", "A">>, <<"LBRACE", "{">>>>,
     \* variable x =
     <<<<"VARIABLE", "variable">>, <<"IDENTIFIER", "x">>, <<"EQUALS", "=">>>>,
     \* ;
     <<<<"SEMICOLON", ";">>>>,
     \* yeet "s" ;
     <<<<"YEET", "yeet">>, <<"STRING", "\"s\"">>, <<"SEMICOLON", ";">>>>
    }

\* Whole token lists.
SampleTokens ==
    {
     \* function f ( a , b ) { say ( "s" , a ) ; }
     <<<<"FUNCTION", "function">>, <<"IDENTIFIER", "f">>, <<"LPAREN", "(">>, <<"IDENTIFIER", "a">>, <<"COMMA", ",">>, <<"IDENTIFIER", "b">>, <<"RPAREN", ")">>, <<"LBRACE", "{">>, <<"IDENTIFIER", "say">>, <<"LPAREN", "(">>, <<"STRING", "\"s\"">>, <<"COMMA", ",">>, <<"IDENTIFIER", "a">>, <<"RPAREN", ")">>, <<"SEMICOLON", ";">>, <<"RBRACE", "}">>>>,
     \* public function f ( ) { }
     <<<<"PUBLIC", "public">>, <<"FUNCTION", "function">>, <<"IDENTIFIER", "f">>, <<"LPAREN", "(">>, <<"RPAREN", ")">>, <<"LBRACE", "{">>, <<"RBRACE", "}">>>>,
     \* class A extends B { x = "s" ; }
     <<<<"CLASS", "class">>, <<"IDENTIFIER", "A">>, <<"EXTENDS", "extends">>, <<"IDENTIFIER", "B">>, <<"LBRACE", "{">>, <<"IDENTIFIER", "x">>, <<"EQUALS", "=">>, <<"STRING", "\"s\"">>, <<"SEMICOLON", ";">>, <<"RBRACE", "}">>>>,
     \* variable x -> T = null ;
     <<<<"VARIABLE", "variable">>, <<"IDENTIFIER", "x">>, <<"ARROW", "->">>, <<"IDENTIFIER", "T">>, <<"EQUALS", "=">>, <<"NULL", "null">>, <<"SEMICOLON", ";">>>>,
     \* variable x = true ;
     <<<<"VARIABLE", "variable">>, <<"IDENTIFIER", "x">>, <<"EQUALS", "=">>, <<"BOOLEAN", "true">>, <<"SEMICOLON", ";">>>>,
     \* variable x = y ;
     <<<<"VARIABLE", "variable">>, <<"IDENTIFIER", "x">>, <<"EQUALS", "=">>, <<"IDENTIFIER", "y">>, <<"SEMICOLON", ";">>>>,
     \* import a . b ;
     <<<<"IMPORT", "import">>, <<"IDENTIFIER", "a">>, <<"DOT", ".">>, <<"IDENTIFIER", "b">>, <<"SEMICOLON", ";">>>>,
     \* if true { if "s" { yeet "s" ; } return a ; import a ; }
     <<<<"IF", "if">>, <<"BOOLEAN", "true">>, <<"LBRACE", "{">>, <<"IF", "if">>, <<"STRING", "\"s\"">>, <<"LBRACE", "{">>, <<"YEET", "yeet">>, <<"STRING", "\"s\"">>, <<"SEMICOLON", ";">>, <<"RBRACE", "}">>, <<"RETURN", "return">>, <<"IDENTIFIER", "a">>, <<"SEMICOLON", ";">>, <<"IMPORT", "import">>, <<"IDENTIFIER", "a">>, <<"SEMICOLON", ";">>, <<"RBRACE", "}">>>>,
     \* folder if false { say ( ) ; } //c return true ;
     <<<<"FOLDER", "folder a">>, <<"IF", "if">>, <<"BOOLEAN", "false">>, <<"LBRACE", "{">>, <<"IDENTIFIER", "say">>, <<"LPAREN", "(">>, <<"RPAREN", ")">>, <<"SEMICOLON", ";">>, <<"RBRACE", "}">>, <<"COMMENT", "//c">>, <<"RETURN", "return">>, <<"BOOLEAN", "true">>, <<"SEMICOLON", ";">>>>,
     \* function f ( a b ) { }
     <<<<"FUNCTION", "function">>, <<"IDENTIFIER", "f">>, <<"LPAREN", "(">>, <<"IDENTIFIER", "a">>, <<"IDENTIFIER", "b">>, <<"RPAREN", ")">>, <<"LBRACE", "{">>, <<"RBRACE", "}">>>>
    }

\* The token lists parse is run on.
TokenLists == {Flatten(ss) : ss \in SeqsUpTo(TokenPhrases, MaxPhrases)} \cup SampleTokens

\* The top-level items whose nodes semantic_analysis is run on.
TopLevelTokens ==
    {
     \* class A { }
     <<<<"CLASS", "class">>, <<"IDENTIFIER", "A">>, <<"LBRACE", "{">>, <<"RBRACE", "}">>>>,
     \* class B { }
     <<<<"CLASS", "class">>, <<"IDENTIFIER", "B">>, <<"LBRACE", "{">>, <<"RBRACE", "}">>>>,
     \* variable A = "s" ;
     <<<<"VARIABLE", "variable">>, <<"IDENTIFIER", "A">>, <<"EQUALS", "=">>, <<"STRING", "\"s\"">>, <<"SEMICOLON", ";">>>>,
     \* variable B -> T = null ;
     <<<<"VARIABLE", "variable">>, <<"IDENTIFIER", "B">>, <<"ARROW", "->">>, <<"IDENTIFIER", "T">>, <<"EQUALS", "=">>, <<"NULL", "null">>, <<"SEMICOLON", ";">>>>,
     \* function A ( ) { }
     <<<<"FUNCTION", "function">>, <<"IDENTIFIER", "A">>, <<"LPAREN", "(">>, <<"RPAREN", ")">>, <<"LBRACE", "{">>, <<"RBRACE", "}">>>>,
     \* function f ( a ) { }
     <<<<"FUNCTION", "function">>, <<"IDENTIFIER", "f">>, <<"LPAREN", "(">>, <<"IDENTIFIER", "a">>, <<"RPAREN", ")">>, <<"LBRACE", "{">>, <<"RBRACE", "}">>>>,
     \* if true { say ( "x" ) ; }
     <<<<"IF", "if">>, <<"BOOLEAN", "true">>, <<"LBRACE", "{">>, <<"IDENTIFIER", "say">>, <<"LPAREN", "(">>, <<"STRING", "\"x\"">>, <<"RPAREN", ")">>, <<"SEMICOLON", ";">>, <<"RBRACE", "}">>>>,
     \* return "s" ;
     <<<<"RETURN", "return">>, <<"STRING", "\"s\"">>, <<"SEMICOLON", ";">>>>
    }

\* The calls whose nodes semantic_analysis is run on.
CallTokens ==
    {
     \* say ( "hello" ) ;
     <<<<"IDENTIFIER", "say">>, <<"LPAREN", "(">>, <<"STRING", "\"hello\"">>, <<"RPAREN", ")">>, <<"SEMICOLON", ";">>>>,
     \* A ( ) ;
     <<<<"IDENTIFIER", "A">>, <<"LPAREN", "(">>, <<"RPAREN", ")">>, <<"SEMICOLON", ";">>>>,
     \* foo ( a ) ;
     <<<<"IDENTIFIER", "foo">>, <<"LPAREN", "(">>, <<"IDENTIFIER", "a">>, <<"RPAREN", ")">>, <<"SEMICOLON", ";">>>>
    }

\* The node parse (for a top-level item) or parse_function_call (for a call)
\* builds for a token list.
NodeOf(ts) ==
    IF ts[1][1] = "IDENTIFIER" THEN parse_function_call(ts, 0).value ELSE parse(ts).ast[1]

\* The ASTs semantic_analysis is run on, each node as its token list.
CheckedUnits == SeqsUpTo(TopLevelTokens \cup CallTokens, MaxNodes)

\* The statements of the bodies the evaluator is run on.
StatementTexts ==
    {
     <<"s","a","y","(","\"","h","e","l","l","o","\"",")",";">>,   \* say("hello");
     <<"s","a","y","(",")",";">>,   \* say();
     <<"s","a","y","(","\"","a","\"","\"","b","\"",")",";">>,   \* say("a""b");
     <<"f","o","o","(",")",";">>,   \* foo();
     <<"y","e","e","t","\"","b","o","o","m","\"",";">>,   \* yeet"boom";
     <<"r","e","t","u","r","n","\"","x","\"",";">>,   \* return"x";
     <<"i","f","t","r","u","e","{","y","e","e","t","\"","i","n","\"",";","}">>,   \* iftrue{yeet"in";}
     <<"i","f","f","a","l","s","e","{","s","a","y","(","\"","n","o","\"",")",";","}">>   \* iffalse{say("no");}
    }

\* The conditions of the if statements the evaluator is run on.
ConditionTexts ==
    {
     <<"t","r","u","e">>,   \* true
     <<"f","a","l","s","e">>,   \* false
     <<"\"","t","r","u","e","\"">>,   \* "true"
     <<"\"","x","\"">>   \* "x"
    }

\* What precedes the if statement in a unit.
PrefixTexts ==
    {
     <<>>,
     <<"r","e","t","u","r","n","\"","x","\"",";">>   \* return"x";
    }

\* What follows the if statement in a unit.
SuffixTexts ==
    {
     <<>>,
     <<"r","e","t","u","r","n","\"","y","\"",";">>   \* return"y";
    }

\* The units the evaluator is run on: an if statement with a body of at most
\* MaxStatements statements, between a prefix and a suffix.
ProgramTexts ==
    {pre \o <<"i","f">> \o cond \o <<"{">> \o Flatten(body) \o <<"}">> \o post :
        pre \in PrefixTexts, cond \in ConditionTexts,
        body \in SeqsUpTo(StatementTexts, MaxStatements), post \in SuffixTexts}

\* The AST lexer and parse build for a source text.
AstOf(s) == parse(lexer(s).tokens).ast

(***************************************************************************)
(* The program.  `entry` is the function that was called, `stage` the      *)
(* function that is running: compile_file runs lexer, parse,               *)
(* semantic_analysis and execute_ast in turn, and an exception ends it.    *)
(***************************************************************************)
Start(e, st, text, toks, nodes) ==
    /\ entry = e
    /\ stage = st
    /\ input_text = text
    /\ position = 0
    /\ tokens = toks
    /\ index = 0
    /\ ast = nodes
    /\ symbol_table = <<>>
    /\ node_i = 1
    /\ frames = IF st = "execute_ast" THEN <<Frame(nodes, 1)>> ELSE <<>>
    /\ effects = <<>>
    /\ error = NoError

InitCompile == \E s \in SourceTexts : Start("compile_file", "lexer", s, <<>>, <<>>)

InitParse == \E ts \in TokenLists : Start("parse", "parse", <<>>, ts, <<>>)

InitAnalyze ==
    \E unit \in CheckedUnits :
        Start("semantic_analysis", "semantic_analysis", <<>>, <<>>,
              [k \in 1..Len(unit) |-> NodeOf(unit[k])])

InitExecute ==
    \E s \in ProgramTexts : Start("execute_ast", "execute_ast", s, <<>>, AstOf(s))

\* The stage after `st` returns.
NextStage(st) ==
    IF entry # "compile_file" THEN "done"
    ELSE CASE st = "lexer" -> "parse"
           [] st = "parse" -> "semantic_analysis"
           [] st = "semantic_analysis" -> "execute_ast"
           [] st = "execute_ast" -> "done"

LexerApply(r) ==
    /\ error' = r.error
    /\ position' = r.position
    /\ tokens' = r.tokens
    /\ stage' = IF Failed(r) THEN "raised" ELSE stage

\* One iteration of lexer's while loop.
LexerStep ==
    /\ stage = "lexer"
    /\ position < Len(input_text)
    /\ LexerApply(LexerIter(input_text, position, tokens))
    /\ UNCHANGED <<entry, input_text, index, ast, symbol_table, node_i, frames, effects>>

\* lexer returns tokens.
LexerReturn ==
    /\ stage = "lexer"
    /\ position >= Len(input_text)
    /\ stage' = NextStage("lexer")
    /\ UNCHANGED <<entry, input_text, position, tokens, index, ast, symbol_table, node_i,
                   frames, effects, error>>

ParseApply(r) ==
    /\ error' = r.error
    /\ index' = r.index
    /\ ast' = r.ast
    /\ stage' = IF Failed(r) THEN "raised" ELSE stage

\* One iteration of parse's top-level while loop.
ParseStep ==
    /\ stage = "parse"
    /\ peek(tokens, index, 0) # NoToken
    /\ ParseApply(ParseIter(tokens, index, ast))
    /\ UNCHANGED <<entry, input_text, position, tokens, symbol_table, node_i, frames, effects>>

\* parse returns ast.
ParseReturn ==
    /\ stage = "parse"
    /\ peek(tokens, index, 0) = NoToken
    /\ stage' = NextStage("parse")
    /\ UNCHANGED <<entry, input_text, position, tokens, index, ast, symbol_table, node_i,
                   frames, effects, error>>

AnalyzeApply(r) ==
    /\ error' = r.error
    /\ symbol_table' = r.symbol_table
    /\ node_i' = IF Failed(r) THEN node_i ELSE node_i + 1
    /\ stage' = IF Failed(r) THEN "raised" ELSE stage

\* One iteration of semantic_analysis' for loop.
AnalyzeStep ==
    /\ stage = "semantic_analysis"
    /\ node_i <= Len(ast)
    /\ AnalyzeApply(analyze_node(ast[node_i], symbol_table))
    /\ UNCHANGED <<entry, input_text, position, tokens, index, ast, frames, effects>>

\* semantic_analysis returns symbol_table; compile_file calls execute_ast(ast).
AnalyzeReturn ==
    /\ stage = "semantic_analysis"
    /\ node_i > Len(ast)
    /\ stage' = NextStage("semantic_analysis")
    /\ frames' = IF entry = "compile_file" THEN <<Frame(ast, 1)>> ELSE frames
    /\ UNCHANGED <<entry, input_text, position, tokens, index, ast, symbol_table, node_i,
                   effects, error>>

ExecuteApply(r) ==
    /\ error' = r.error
    /\ frames' = r.frames
    /\ effects' = r.effects
    /\ stage' = IF Failed(r) THEN "raised" ELSE stage

\* One iteration of the for loop of the innermost execute_ast.
ExecuteStep ==
    /\ stage = "execute_ast"
    /\ frames # <<>>
    /\ frames[Len(frames)].pc <= Len(frames[Len(frames)].nodes)
    /\ ExecuteApply(ExecuteIter(frames, effects))
    /\ UNCHANGED <<entry, input_text, position, tokens, index, ast, symbol_table, node_i>>

\* The innermost execute_ast has walked its list and returns.
ExecuteReturn ==
    /\ stage = "execute_ast"
    /\ frames # <<>>
    /\ frames[Len(frames)].pc > Len(frames[Len(frames)].nodes)
    /\ frames' = SubSeq(frames, 1, Len(frames) - 1)
    /\ stage' = IF Len(frames) = 1 THEN NextStage("execute_ast") ELSE stage
    /\ UNCHANGED <<entry, input_text, position, tokens, index, ast, symbol_table, node_i,
                   effects, error>>

Init == InitCompile \/ InitParse

Next ==
    \/ LexerStep
    \/ LexerReturn
    \/ ParseStep
    \/ ParseReturn
    \/ AnalyzeStep
    \/ AnalyzeReturn
    \/ ExecuteStep
    \/ ExecuteReturn

\* compile_file on source texts, and parse on token lists.
Spec == Init /\ [][Next]_vars

\* semantic_analysis on ASTs.
SpecAnalyze == InitAnalyze /\ [][AnalyzeStep \/ AnalyzeReturn]_vars

\* execute_ast on ASTs.
SpecExecute == InitExecute /\ [][ExecuteStep \/ ExecuteReturn]_vars

(***************************************************************************)
(* Properties.                                                             *)
(***************************************************************************)
\* The innermost execute_ast is at a node of its list.
Executing ==
    /\ stage = "execute_ast"
    /\ frames # <<>>
    /\ frames[Len(frames)].pc <= Len(frames[Len(frames)].nodes)

\* The node the innermost execute_ast is at.
Current == frames[Len(frames)].nodes[frames[Len(frames)].pc]

\* The innermost execute_ast has gone on to the next node of the same list.
MovedOn ==
    /\ stage' = "execute_ast"
    /\ error'.exc = ""
    /\ Len(frames') >= Len(frames)
    /\ frames'[Len(frames)].pc = frames[Len(frames)].pc + 1
    /\ frames'[Len(frames)].nodes = frames[Len(frames)].nodes

\* Exactly one line was printed, and its first part is `prefix`.
PrintedOne(prefix) ==
    /\ Len(effects') = Len(effects) + 1
    /\ SubSeq(effects', 1, Len(effects)) = effects
    /\ effects'[Len(effects')][1] = prefix

\* A Yeet or Return prints its line and the walk goes on with its sibling.
YeetReturnStep ==
    (Executing /\ Current.type \in {"YEET", "RETURN"}) =>
        /\ MovedOn
        /\ Len(frames') = Len(frames)
        /\ PrintedOne(IF Current.type = "YEET" THEN "Error: " ELSE "Returning: ")
        /\ effects'[Len(effects')][2] = Current.value

\* A step of the walk either fails with the arity error and stops, goes on
\* to the next sibling, or leaves a list all of whose nodes were walked.
WalkStep ==
    (stage = "execute_ast" /\ frames # <<>>) =>
        \/ /\ Executing
           /\ stage' = "raised"
           /\ error'.msg = ArityError.msg
           /\ Current.type = "FUNCTION_CALL"
        \/ /\ Executing
           /\ MovedOn
        \/ /\ ~Executing
           /\ Len(frames') = Len(frames) - 1
           /\ error'.exc = ""

\* C1: evaluation never leaves a node sequence early on a Yeet or a Return.
\* A Yeet or Return node emits its effect ("Error: <message>", "Returning:
\* <value>") and the walk goes on with the next sibling; every step moves
\* to the next node of the list in order, a list is left only after its last
\* node, and the only failure that stops the walk is the arity error of say.
C1_NoEarlyExit ==
    /\ [](stage = "raised" => error.msg = ArityError.msg)
    /\ [][YeetReturnStep /\ WalkStep]_vars

\* A walk that ended after a Yeet was followed by two Returns, the second
\* of them after the If that holds the Yeet.
C1_Witness ==
    /\ stage = "done"
    /\ \E k \in 1..(Len(effects) - 2) :
          /\ effects[k][1] = "Error: "
          /\ effects[k + 1][1] = "Returning: "
          /\ effects[k + 2][1] = "Returning: "

\* The node the innermost execute_ast has just executed.
Previous == frames[Len(frames)].nodes[frames[Len(frames)].pc - 1]

Executed == stage = "execute_ast" /\ frames # <<>> /\ frames[Len(frames)].pc > 1

\* The text of the string literals of the units, without the quotes.
TextOf(value) ==
    CASE value = "\"hello\"" -> "hello"
      [] value = "\"no\"" -> "no"
      [] value = "\"a\"" -> "a"
      [] OTHER -> value

\* C2: a call of say with exactly one argument emits exactly one effect,
\* "Saying: <value>" with the argument's text (Saying: hello for
\* say("hello");), and does not fail; with any other number of arguments it
\* fails with the arity error and emits no Saying effect.
C2_SayEffect ==
    /\ (Executed /\ Previous.type = "FUNCTION_CALL" /\ Previous.value = "say") =>
          /\ Len(Previous.children) = 1
          /\ effects # <<>>
          /\ effects[Len(effects)][1] = "Saying: "
          /\ effects[Len(effects)][2] = TextOf(Previous.children[1].value)
    /\ (stage = "raised" /\ frames # <<>>) =>
          /\ Current.type = "FUNCTION_CALL"
          /\ Current.value = "say"
          /\ Len(Current.children) # 1
          /\ error.msg = ArityError.msg

\* An If runs its body exactly when its condition's value is 'true';
\* otherwise it prints the one "Condition not met" line and nothing else.
IfStep ==
    (Executing /\ Current.type = "IF") =>
        /\ MovedOn
        /\ IF Current.children[1].value = "true"
           THEN /\ Len(frames') = Len(frames) + 1
                /\ frames'[Len(frames')].pc = 1
                /\ frames'[Len(frames')].nodes = Current.children[2].items
                /\ Len(effects') = Len(effects)
           ELSE /\ Len(frames') = Len(frames)
                /\ PrintedOne("Condition not met for if statement")
                /\ Len(effects'[Len(effects')]) = 1

\* Every list being walked other than the top-level one is the body of an
\* If whose condition's value is 'true', called from the list below it.
BodiesOfTrueIfs ==
    \A k \in 2..Len(frames) :
        /\ frames[k - 1].pc > 1
        /\ frames[k - 1].nodes[frames[k - 1].pc - 1].type = "IF"
        /\ frames[k - 1].nodes[frames[k - 1].pc - 1].children[1].value = "true"
        /\ frames[k].nodes = frames[k - 1].nodes[frames[k - 1].pc - 1].children[2].items

\* C3: the statements of an If's body are evaluated, in order, if and only
\* if the condition node's value equals 'true'; for every other value the
\* evaluator emits exactly one "Condition not met" effect and no effect of a
\* statement of the body.
C3_IfOnlyOnTrue == []BodiesOfTrueIfs /\ [][IfStep /\ WalkStep]_vars

\* The unit  if"true"{...}  with a body that is not empty has ended with the
\* single line "Condition not met".
C3_Witness ==
    /\ stage = "done"
    /\ Len(ast) = 1
    /\ ast[1].type = "IF"
    /\ ast[1].children[1].type = "STRING"
    /\ ast[1].children[1].value = "\"true\""
    /\ Len(ast[1].children[2].items) > 0
    /\ Len(effects) = 1
    /\ effects[1][1] = "Condition not met for if statement"

UndeclaredMessage == "Semantic error: Function not declared"

DuplicateMessages ==
    {"Semantic error: Class already declared",
     "Semantic error: Variable already declared",
     "Semantic error: Function already declared"}

\* C5: in the semantic check a FunctionCall fails with the undeclared-call
\* error if and only if its callee is neither in the symbol table nor the
\* built-in say; a call of say never fails the check.
C5_SayAlwaysDeclared ==
    /\ (stage = "raised" /\ error.msg = UndeclaredMessage) =>
          /\ error.name # "say"
          /\ error.name \notin DOMAIN symbol_table
    /\ \A k \in 1..(node_i - 1) :
          ast[k].type = "FUNCTION_CALL" =>
              ast[k].value = "say" \/ ast[k].value \in DOMAIN symbol_table

IsDeclaration(node) == node.type \in {"CLASS", "VARIABLE", "FUNCTION"}

\* The name a Class, Variable or Function node declares.
DeclaredName(node) == IF node.type = "CLASS" THEN node.value ELSE node.value[1]

\* The places of the declarations among the first n nodes of the unit.
Declarations(n) == {k \in 1..n : IsDeclaration(ast[k])}

\* The check of a declaration fails, naming it, when its name is in the
\* table, and enters it otherwise.
DeclareStep ==
    (stage = "semantic_analysis" /\ node_i <= Len(ast) /\ IsDeclaration(ast[node_i])) =>
        IF DeclaredName(ast[node_i]) \in DOMAIN symbol_table
        THEN /\ stage' = "raised"
             /\ error'.msg \in DuplicateMessages
             /\ error'.name = DeclaredName(ast[node_i])
             /\ DOMAIN symbol_table' = DOMAIN symbol_table
        ELSE /\ stage' = "semantic_analysis"
             /\ error'.exc = ""
             /\ node_i' = node_i + 1
             /\ DOMAIN symbol_table' = DOMAIN symbol_table \cup {DeclaredName(ast[node_i])}
             /\ symbol_table'[DeclaredName(ast[node_i])].type = ast[node_i].type

\* The table holds exactly the names of the declarations checked so far, one
\* entry for each; a duplicate error names a name an earlier node declared;
\* a check that returned met no name twice.
OneEntryPerName ==
    /\ DOMAIN symbol_table = {DeclaredName(ast[k]) : k \in Declarations(node_i - 1)}
    /\ Cardinality(DOMAIN symbol_table) = Cardinality(Declarations(node_i - 1))
    /\ (stage = "raised" /\ error.msg \in DuplicateMessages) =>
          /\ IsDeclaration(ast[node_i])
          /\ error.name = DeclaredName(ast[node_i])
          /\ \E k \in Declarations(node_i - 1) : DeclaredName(ast[k]) = error.name
    /\ stage = "done" =>
          \A j, k \in Declarations(Len(ast)) :
              j # k => DeclaredName(ast[j]) # DeclaredName(ast[k])

\* C6: the semantic check fails with a duplicate-declaration error naming X
\* at the first Class, Variable or Function node that declares a name X
\* already in the symbol table, whatever the kinds of the two declarations;
\* if no name repeats, the table has exactly one entry per declared name.
C6_DuplicateDeclaration == []OneEntryPerName /\ [][DeclareStep]_vars

\* class A followed by variable A: the check failed at the variable.
C6_Witness ==
    /\ stage = "raised"
    /\ node_i = 2
    /\ ast[1].type = "CLASS"
    /\ ast[2].type = "VARIABLE"
    /\ error.msg = "Semantic error: Variable already declared"
    /\ error.name = "A"

FolderUnit == <<"f","o","l","d","e","r"," ","a",".","b",".","c",";">>

\* C7: compiling the unit  folder a.b.c;  succeeds: the parser consumes the
\* folder declaration without emitting a node, the AST is empty, and
\* evaluation emits no effect.
C7_FolderOnly ==
    (entry = "compile_file" /\ input_text = FolderUnit) =>
        /\ stage # "raised"
        /\ ast = <<>>
        /\ effects = <<>>

VariableUnit ==
    <<"v","a","r","i","a","b","l","e"," ","x"," ","="," ","\"","h","i","\"",";">>

\* C8: the lexer turns  variable x = "hi";  into exactly the five tokens
\* VARIABLE, IDENTIFIER(x), EQUALS, STRING("hi"), SEMICOLON, and no COMMENT
\* token is in the lexer's output for any input.
C8_FiveTokens ==
    entry = "compile_file" =>
        /\ \A k \in 1..Len(tokens) : tokens[k][1] # "COMMENT"
        /\ (input_text = VariableUnit /\ stage # "lexer") =>
              /\ Len(tokens) = 5
              /\ tokens[1][1] = "VARIABLE"
              /\ tokens[2] = <<"IDENTIFIER", "x">>
              /\ tokens[3][1] = "EQUALS"
              /\ tokens[4] = <<"STRING", "\"hi\"">>
              /\ tokens[5][1] = "SEMICOLON"

\* C9: the semantic check of an If node built by the parser visits the
\* condition and the statements of the body, and never ends in a failure
\* other than the duplicate-declaration and undeclared-call errors.
C9_IfCheckFailures ==
    (stage = "raised" /\ ast[node_i].type = "IF") =>
        error.msg \in DuplicateMessages \cup {UndeclaredMessage}

\* An iteration of a loop that began at token j either failed or ended
\* past j, within the tokens.
Consumed(r, j) == Failed(r) \/ (r.index > j /\ r.index <= Len(tokens))

\* Every scan step of the lexer advances or fails at the offset it is at.
ScanProgress ==
    (stage = "lexer" /\ position < Len(input_text)) =>
        IF Failed(LexerIter(input_text, position, tokens))
        THEN /\ LexerIter(input_text, position, tokens).error.msg
                    = "Lexer error: Unrecognized token at position"
             /\ LexerIter(input_text, position, tokens).error.at = position
        ELSE /\ LexerIter(input_text, position, tokens).position > position
             /\ LexerIter(input_text, position, tokens).position <= Len(input_text)

\* Every iteration of the parser's loops consumes a token or fails, at every
\* place of the tokens where the loop's condition lets it run.
LoopProgress ==
    (stage = "parse" /\ index = 0) =>
        \A j \in 0..(Len(tokens) - 1) :
            /\ Consumed(ParseIter(tokens, j, <<>>), j)
            /\ tokens[j + 1][1] # "RBRACE" => Consumed(parse_statement(tokens, j), j)
            /\ tokens[j + 1][1] # "RPAREN" =>
                  /\ Consumed(ParameterIter(tokens, j, <<>>), j)
                  /\ Consumed(ArgumentIter(tokens, j, <<>>), j)

\* C10: the front end terminates.  Every scan step of the lexer advances the
\* cursor or fails with the lexer error at the current offset; every
\* iteration of the parser's top-level, body, parameter and argument loops
\* consumes a token or fails; the cursor and the token index never decrease
\* and never pass the end of the text and of the tokens.
C10_FrontEndProgress ==
    /\ [](ScanProgress /\ LoopProgress)
    /\ [](position <= Len(input_text) /\ index <= Len(tokens))
    /\ [][position' >= position /\ index' >= index]_vars

\* parse returned the node of a function with two parameters and a call
\* with two arguments in its body, all its tokens consumed.
C10_Witness ==
    /\ entry = "parse"
    /\ stage = "done"
    /\ index = Len(tokens)
    /\ Len(ast) = 1
    /\ ast[1].type = "FUNCTION"
    /\ Len(ast[1].value[2]) = 2
    /\ Len(ast[1].children) = 1
    /\ Len(ast[1].children[1].children) = 2

====
